---- MODULE Spec2Model ----
(***************************************************************************)
(* NEPHELE / SAM2 point picker and video propagation.                      *)
(*                                                                         *)
(*   src/SAM2/app/video_predict.py      run_sam2, ensure_indexed,          *)
(*                                      _gather_frames, to_u8_mask         *)
(*   src/SAM2/app/point_picker_flask.py the /save route and its helpers    *)
(*                                                                         *)
(* File names are sequences of character codes, so that sorted(), glob     *)
(* matching, os.path.splitext and str.lower are computed on the names as   *)
(* Python computes them.                                                   *)
(***************************************************************************)
EXTENDS Integers, Sequences, FiniteSets, TLC

VARIABLES
    \* ---- file system and configuration
    srcExists,          \* os.path.isdir(<original INPUT>)
    srcFiles,           \* base names of the entries of the original INPUT
    dstFiles,           \* <INPUT>_indexed: set of [name, content]
    AUTO_INDEX,         \* AUTO_INDEX == "1"
    promptsJson,        \* <<>> when prompts.json is absent, else <<record>>
    outDir,             \* mask files written into OUT_DIR
    maskedDir,          \* visualizations written into <out_name>_masked
    previewDir,         \* visualizations in PREVIEW_DIR
    \* ---- one run of video_predict.py (run_sam2)
    pc,                 \* position of the run
    err,                \* the exception that ended the run, "" if none
    preview,            \* --preview
    preview_num_frames, \* --preview-num-frames
    preview_out,        \* --preview-out given
    INPUT,              \* "src" (original directory) or "dst" (indexed one)
    frame_paths,        \* _gather_frames(INPUT), once computed
    FRAME_IDX,          \* int(J["frame_idx"])
    points,             \* np.array(J["points"], dtype=np.float32)
    labels,             \* np.array(J["labels"], dtype=np.int32)
    loaded,             \* SAM2VideoPredictor.from_pretrained succeeded
    seedArgs,           \* <<>> or <<[frame_idx, points, labels]>> given to the seed call
    chosen_extra,       \* the sampled extra frames of a preview run
    saved,              \* the counter of the preview loop
    emitted,            \* frame indices passed to save_set, in call order
    visKinds,           \* the kinds of visualization save_set has written
    trav,               \* what propagate_in_video has still to yield
    pulled,             \* number of results taken from propagate_in_video
    \* ---- to_u8_mask
    maskIn,             \* [kind, px]: the mask handed to to_u8_mask
    maskOut,            \* <<>> or <<pixels>>: the image cv2.imwrite receives
    \* ---- the Flask application
    FRAMES,             \* resolve_frames() at start-up
    imageSize,          \* <<w, h>> of FRAMES[0]
    savePc,             \* position of the /save handler
    request,            \* <<>> or <<clicks>>: the clicks of the last /save body
    response,           \* <<>> or <<answer>>: the last answer of /save
    \* ---- the file names of save_set
    nameIn,             \* [base_name, obj_ids]: one frame handed to save_set
    nameOut,            \* <<>> or <<[masks, vis]>>: the names it wrote
    \* ---- /save requests served at the same time
    reqPc,              \* position of each request's handler and of its run
    promptsBy,          \* the request whose prompts.json is on disk, 0 if none
    previewBy,          \* the requests whose runs have files in PREVIEW_DIR
    readBy,             \* per request: whose prompts.json its run has loaded
    \* ---- repeated calls of ensure_indexed
    indexCalls,         \* number of calls made
    indexErr,           \* the exception of the last call, "" if none
    indexedSrc,         \* the sources of the calls that returned, in call order
    \* ---- the flag files of the application and its other routes
    doneFlag,           \* DONE_FLAG exists
    useExisting,        \* USE_EXISTING exists
    routePc,            \* "idle", or the position inside /use_existing
    lastRoute           \* the route of the request handled last, "" if none

vars == << srcExists, srcFiles, dstFiles, AUTO_INDEX, promptsJson, outDir,
           maskedDir, previewDir, pc, err, preview, preview_num_frames,
           preview_out, INPUT, frame_paths, FRAME_IDX, points, labels, loaded,
           seedArgs, chosen_extra, saved, emitted, visKinds, trav, pulled, maskIn,
           maskOut, FRAMES, imageSize, savePc, request, response, nameIn,
           nameOut, reqPc, promptsBy, previewBy, readBy, indexCalls, indexErr,
           indexedSrc, doneFlag, useExisting, routePc, lastRoute >>

fsVars    == << srcExists, srcFiles, dstFiles, AUTO_INDEX, promptsJson, outDir,
                maskedDir, previewDir >>
runVars   == << pc, err, preview, preview_num_frames, preview_out, INPUT,
                frame_paths, FRAME_IDX, points, labels, loaded, seedArgs,
                chosen_extra, saved, emitted, visKinds, trav, pulled >>
maskVars  == << maskIn, maskOut >>
flaskVars == << FRAMES, imageSize, savePc, request, response >>
nameVars  == << nameIn, nameOut >>
concVars  == << reqPc, promptsBy, previewBy, readBy >>
indexVars == << indexCalls, indexErr, indexedSrc >>
flagVars  == << doneFlag, useExisting, routePc, lastRoute >>
otherVars == << nameVars, concVars, indexVars, flagVars >>

(***************************************************************************)
(* Bounds of the model.                                                    *)
(***************************************************************************)
MaxPreviewNum == 4      \* preview_num_frames ranges over 0..MaxPreviewNum
MaxFrameIdx   == 3      \* frame_idx of a hand-written prompts.json: 0..MaxFrameIdx
MaxPoints     == 2      \* points of one /save request
MaxPixels     == 2      \* pixels of one mask
MaxObjects    == 2      \* object ids of one frame: 1..MaxObjects of them
MaxObjId      == 11     \* object ids range over 0..MaxObjId
MaxClients    == 2      \* /save requests that can be in progress together
MaxIndexCalls == 3      \* calls of ensure_indexed in a row

(***************************************************************************)
(* Strings as sequences of character codes.                                *)
(***************************************************************************)
\* src/SAM2/app/video_predict.py:18
ACCEPT_EXTS == << <<46, 106, 112, 103>>,        \* ".jpg"
                  <<46, 106, 112, 101, 103>>,   \* ".jpeg"
                  <<46, 112, 110, 103>> >>      \* ".png"

\* str.upper / str.lower on ASCII
Upper(s) == [i \in DOMAIN s |-> IF s[i] \in 97..122 THEN s[i] - 32 ELSE s[i]]
Lower(s) == [i \in DOMAIN s |-> IF s[i] \in 65..90 THEN s[i] + 32 ELSE s[i]]

Range(s) == {s[i] : i \in DOMAIN s}

\* Python's order on str: code point by code point, a proper prefix first
LexLess(a, b) ==
    \E k \in 1..(Len(a) + 1) :
        /\ k <= Len(b)
        /\ \A i \in 1..(k - 1) : a[i] = b[i]
        /\ (k = Len(a) + 1 \/ a[k] < b[k])

RECURSIVE Sorted(_)
\* sorted(set(...)) of a set of strings
Sorted(S) ==
    IF S = {} THEN <<>>
    ELSE LET m == CHOOSE x \in S : \A y \in S \ {x} : LexLess(x, y)
         IN  <<m>> \o Sorted(S \ {m})

\* os.path.splitext: the extension starts at the last dot that has a
\* character other than a dot before it
ExtPos(name) ==
    LET cand == {i \in DOMAIN name :
                    /\ name[i] = 46
                    /\ \E j \in 1..(i - 1) : name[j] # 46}
    IN  IF cand = {} THEN Len(name) + 1
        ELSE CHOOSE i \in cand : \A j \in cand : j <= i

splitext(name) ==
    << SubSeq(name, 1, ExtPos(name) - 1), SubSeq(name, ExtPos(name), Len(name)) >>

\* glob.glob(os.path.join(d, "*" + ext)): the name ends with ext, compared
\* case-sensitively, and does not start with a dot (glob skips hidden entries)
GlobMatch(name, ext) ==
    /\ Len(name) >= Len(ext)
    /\ SubSeq(name, Len(name) - Len(ext) + 1, Len(name)) = ext
    /\ name[1] # 46

\* _gather_frames(d), d given by the set of base names it holds
_gather_frames(names) ==
    Sorted({n \in names :
              \E k \in DOMAIN ACCEPT_EXTS :
                  \/ GlobMatch(n, ACCEPT_EXTS[k])
                  \/ GlobMatch(n, Upper(ACCEPT_EXTS[k]))})

\* f"{i:06d}" for 0 <= i < 10^6
Fmt06(i) == [k \in 1..6 |-> 48 + ((i \div (10 ^ (6 - k))) % 10)]

\* an ensure_indexed without the clearing loop of lines 60-61: a copy
\* replaces the entry of the same name, every other entry stays
ensure_indexedKeep(exists, names, dst) ==
    IF ~exists THEN [err |-> "NotADirectoryError", dst |-> dst]
    ELSE LET files == _gather_frames(names)
             new   == { [name    |-> Fmt06(i - 1) \o Lower(splitext(files[i])[2]),
                         content |-> files[i]] : i \in DOMAIN files }
         IN  IF files = <<>> THEN [err |-> "FileNotFoundError:frames", dst |-> dst]
             ELSE [err |-> "",
                   dst |-> new \cup {e \in dst : \A n \in new : n.name # e.name}]

\* ensure_indexed(src_dir): the exception raised ("" if none) and the
\* destination directory afterwards
ensure_indexed(exists, names, dst) ==
    IF ~exists THEN [err |-> "NotADirectoryError", dst |-> dst]
    ELSE LET files == _gather_frames(names)
         IN  IF files = <<>> THEN [err |-> "FileNotFoundError:frames", dst |-> dst]
             ELSE [err |-> "",
                   dst |-> { [name    |-> Fmt06(i - 1) \o Lower(splitext(files[i])[2]),
                              content |-> files[i]] :
                             i \in {j \in DOMAIN files :
                                      Lower(splitext(files[j])[2]) \in Range(ACCEPT_EXTS)} }]


(***************************************************************************)
(* run_sam2                                                                *)
(***************************************************************************)
Max(a, b) == IF a >= b THEN a ELSE b
Min(a, b) == IF a <= b THEN a ELSE b

\* the base names found in the directory INPUT names
DirNames(inp) ==
    IF inp = "dst" THEN {e.name : e \in dstFiles}
    ELSE IF srcExists THEN srcFiles ELSE {}

\* os.path.isdir(INPUT)
IsDir(inp) == inp = "dst" \/ srcExists

\* np.float32(x) for an integer x: 24 bits of significand, round to nearest,
\* ties to even
RECURSIVE Ulp32(_)
Ulp32(a) == IF a < 2 ^ 24 THEN 1 ELSE 2 * Ulp32(a \div 2)

ToFloat32(x) ==
    LET a  == IF x < 0 THEN 0 - x ELSE x
        u  == Ulp32(a)
        q  == a \div u
        r  == a % u
        up == 2 * r > u \/ (2 * r = u /\ q % 2 = 1)
        m  == (IF up THEN q + 1 ELSE q) * u
    IN  IF x < 0 THEN 0 - m ELSE m

\* np.array(J["points"], dtype=np.float32)
PointsArray(pts) == [i \in DOMAIN pts |-> << ToFloat32(pts[i][1]), ToFloat32(pts[i][2]) >>]

\* np.array(J["labels"], dtype=np.int32): the labels of the model are far
\* inside the int32 range, where the conversion keeps the value
LabelsArray(labs) == [i \in DOMAIN labs |-> labs[i]]

\* pred.propagate_in_video(state): a forward traversal in index order up to
\* the last frame.  sam2 starts it at the earliest prompted frame; the
\* predictor is outside this repository, and a traversal of the whole
\* sequence from frame 0 is allowed as well: start is either one.
propagate_in_video(start, n) == [i \in 1..(n - start) |-> start + i - 1]

\* str(oid) inside an f-string, for an object id that is not negative
RECURSIVE Str(_)
Str(n) == IF n < 10 THEN <<48 + n>> ELSE Str(n \div 10) \o <<48 + (n % 10)>>

\* a save_set that never adds the object id to the name
ObjSuffixNone(single_obj, oid) == <<>>

\* line 227: "" for a single object, else f"_obj{oid}"
ObjSuffix(single_obj, oid) ==
    IF single_obj THEN <<>> ELSE <<95, 111, 98, 106>> \o Str(oid)

\* lines 220-228: out_name of object oid of the frame called base_name
ArtifactName(base_name, single_obj, oid) ==
    LET stem         == splitext(base_name)[1]
        orig_ext     == splitext(base_name)[2]
        ext_for_save == IF orig_ext # <<>> THEN orig_ext ELSE ACCEPT_EXTS[1]
    IN  stem \o ObjSuffix(single_obj, oid) \o ext_for_save

\* the names save_set gives the artifacts of frame_idx (one object id)
OutName(paths, frame_idx) == ArtifactName(paths[frame_idx + 1], TRUE, 1)

\* save_set(frame_idx, obj_ids, masks): one mask in OUT_DIR, one
\* visualization in OUT_MASKED_DIR: with is_preview_mode (line 214) it is
\* the --preview-out directory and save_overlay_preview writes an overlay,
\* otherwise it is <out_name>_masked and save_color_cutout writes a cutout
save_set(frame_idx) ==
    LET out_name        == OutName(frame_paths, frame_idx)
        is_preview_mode == preview /\ preview_out
    IN  /\ emitted' = Append(emitted, frame_idx)
        /\ outDir' = outDir \cup {out_name}
        /\ visKinds' = visKinds \cup {IF is_preview_mode THEN "overlay" ELSE "cutout"}
        /\ IF is_preview_mode
           THEN /\ previewDir' = previewDir \cup {out_name}
                /\ UNCHANGED maskedDir
           ELSE /\ maskedDir' = maskedDir \cup {out_name}
                /\ UNCHANGED previewDir

Fail(e) == pc' = "error" /\ err' = e

\* lines 228-247 with lines 88-91 / 113-116: the mask of the frame is
\* written, then cv2.imread of the source image gives None and
\* save_color_cutout / save_overlay_preview raises FileNotFoundError;
\* nothing catches it
save_set_raises(frame_idx) ==
    /\ emitted' = Append(emitted, frame_idx)
    /\ outDir' = outDir \cup {OutName(frame_paths, frame_idx)}
    /\ UNCHANGED << maskedDir, previewDir, visKinds >>
    /\ Fail("FileNotFoundError:image")

\* a run that forgets line 259
SeedEmitSkipped(frame_idx) == UNCHANGED << emitted, visKinds, outDir, maskedDir, previewDir >>

\* line 259: the result of the seed call is saved before anything else
SeedEmit(frame_idx) == save_set(frame_idx)

\* a reader that falls back to a centre prompt when prompts.json is absent
ReadPromptsDefault(pj) ==
    IF pj = <<>>
    THEN [found |-> TRUE,
          J |-> [frame_idx |-> 0, obj_id |-> 1, points |-> << <<0, 0>> >>,
                 labels |-> <<1>>, image_w |-> 0, image_h |-> 0]]
    ELSE [found |-> TRUE, J |-> pj[1]]

\* lines 184-192: os.path.isfile(PROMPTS_JSON), then json.load
ReadPrompts(pj) ==
    IF pj = <<>> THEN [found |-> FALSE] ELSE [found |-> TRUE, J |-> pj[1]]

\* a run that does not look at what _gather_frames returned
NoFramesUnchecked(fp) == FALSE

\* lines 201-204: `if not frame_paths`
NoFrames(fp) == fp = <<>>

\* lines 165-167: index the frames when INPUT is a directory
RunIndex ==
    /\ pc = "start"
    /\ IF IsDir(INPUT) /\ AUTO_INDEX
       THEN LET r == ensure_indexed(srcExists, srcFiles, dstFiles)
            IN  IF r.err # ""
                THEN Fail(r.err) /\ UNCHANGED << dstFiles, INPUT >>
                ELSE /\ dstFiles' = r.dst
                     /\ INPUT' = "dst"
                     /\ pc' = "paths"
                     /\ UNCHANGED err
       ELSE pc' = "paths" /\ UNCHANGED << dstFiles, INPUT, err >>
    /\ UNCHANGED << srcExists, srcFiles, AUTO_INDEX, promptsJson, outDir,
                    maskedDir, previewDir, preview, preview_num_frames,
                    preview_out, frame_paths, FRAME_IDX, points, labels,
                    loaded, seedArgs, chosen_extra, saved, emitted, visKinds, trav,
                    pulled, maskVars, flaskVars, otherVars >>

\* lines 169-197: output directories, then prompts.json
RunReadPrompts ==
    /\ pc = "paths"
    /\ IF ~ReadPrompts(promptsJson).found
       THEN Fail("FileNotFoundError:prompts")
            /\ UNCHANGED << FRAME_IDX, points, labels >>
       ELSE LET J == ReadPrompts(promptsJson).J
            IN  /\ points' = PointsArray(J.points)
                /\ labels' = LabelsArray(J.labels)
                /\ FRAME_IDX' = J.frame_idx
                /\ pc' = "prompts"
                /\ UNCHANGED err
    /\ UNCHANGED << fsVars, preview, preview_num_frames, preview_out, INPUT,
                    frame_paths, loaded, seedArgs, chosen_extra, saved,
                    emitted, visKinds, trav, pulled, maskVars, flaskVars, otherVars >>

\* lines 199-206: the frames of INPUT
RunGatherFrames ==
    /\ pc = "prompts"
    /\ LET fp == _gather_frames(DirNames(INPUT))
       IN  IF NoFrames(fp)
           THEN Fail("FileNotFoundError:frames") /\ UNCHANGED frame_paths
           ELSE frame_paths' = fp /\ pc' = "frames" /\ UNCHANGED err
    /\ UNCHANGED << fsVars, preview, preview_num_frames, preview_out, INPUT,
                    FRAME_IDX, points, labels, loaded, seedArgs, chosen_extra,
                    saved, emitted, visKinds, trav, pulled, maskVars, flaskVars, otherVars >>

\* lines 208-211: the predictor is loaded onto the accelerator
RunLoadModel ==
    /\ pc = "frames"
    /\ loaded' = TRUE
    /\ pc' = "loaded"
    /\ UNCHANGED << fsVars, err, preview, preview_num_frames, preview_out,
                    INPUT, frame_paths, FRAME_IDX, points, labels, seedArgs,
                    chosen_extra, saved, emitted, visKinds, trav, pulled, maskVars,
                    flaskVars, otherVars >>

\* lines 208-211, no accelerator: from_pretrained(...).to("cuda") raises
RunLoadModelFails ==
    /\ pc = "frames"
    /\ Fail("RuntimeError:cuda")
    /\ UNCHANGED << fsVars, preview, preview_num_frames, preview_out, INPUT,
                    frame_paths, FRAME_IDX, points, labels, loaded, seedArgs,
                    chosen_extra, saved, emitted, visKinds, trav, pulled, maskVars,
                    flaskVars, otherVars >>

\* lines 253-259: init_state, the seed call, and save_set of its result.
\* The seed call returns the frame index it was given; a frame index past
\* the last frame raises IndexError (save_set line 220 at the latest).
RunSeed ==
    /\ pc = "loaded"
    /\ seedArgs' = << [frame_idx |-> FRAME_IDX, points |-> points, labels |-> labels] >>
    /\ IF FRAME_IDX >= Len(frame_paths)
       THEN /\ Fail("IndexError")
            /\ UNCHANGED << emitted, visKinds, outDir, maskedDir, previewDir >>
       ELSE /\ SeedEmit(FRAME_IDX)
            /\ pc' = "seeded"
            /\ UNCHANGED err
    /\ UNCHANGED << srcExists, srcFiles, dstFiles, AUTO_INDEX, promptsJson,
                    preview, preview_num_frames, preview_out, INPUT,
                    frame_paths, FRAME_IDX, points, labels, loaded,
                    chosen_extra, saved, trav, pulled, maskVars, flaskVars, otherVars >>

\* lines 253-259, the source image of the annotated frame cannot be read
RunSeedRaises ==
    /\ pc = "loaded"
    /\ FRAME_IDX < Len(frame_paths)
    /\ seedArgs' = << [frame_idx |-> FRAME_IDX, points |-> points, labels |-> labels] >>
    /\ save_set_raises(FRAME_IDX)
    /\ UNCHANGED << srcExists, srcFiles, dstFiles, AUTO_INDEX, promptsJson,
                    preview, preview_num_frames, preview_out, INPUT,
                    frame_paths, FRAME_IDX, points, labels, loaded,
                    chosen_extra, saved, trav, pulled, maskVars, flaskVars,
                    otherVars >>

\* line 265: extra_needed
ExtraNeeded(n, num_total_frames) == Max(0, Min(n - 1, num_total_frames - 1))

\* a sampler that forgets to leave out the annotated frame
CandidatesAll(num_total_frames, f) == 0..(num_total_frames - 1)

\* line 268: the candidates of random.sample
Candidates(num_total_frames, f) == {i \in 0..(num_total_frames - 1) : i # f}

\* lines 261-273 / 281: the sample of a preview run, and the call of
\* propagate_in_video
RunBeginPropagate ==
    /\ pc = "seeded"
    /\ LET num_total_frames == Len(frame_paths)
           extra_needed     == ExtraNeeded(preview_num_frames, num_total_frames)
           candidates       == Candidates(num_total_frames, FRAME_IDX)
       IN  /\ IF preview
              THEN /\ \E c \in SUBSET candidates :
                         /\ Cardinality(c) = extra_needed
                         /\ chosen_extra' = c
                   /\ saved' = 1
              ELSE UNCHANGED << chosen_extra, saved >>
           /\ \E start \in {0, FRAME_IDX} :
                  trav' = propagate_in_video(start, num_total_frames)
    /\ pc' = "propagate"
    /\ UNCHANGED << fsVars, err, preview, preview_num_frames, preview_out,
                    INPUT, frame_paths, FRAME_IDX, points, labels, loaded,
                    seedArgs, emitted, visKinds, pulled, maskVars, flaskVars, otherVars >>

\* lines 273-278: one iteration of the preview loop
RunPreviewStep ==
    /\ pc = "propagate" /\ preview /\ trav # <<>>
    /\ LET frame_idx == Head(trav)
       IN  /\ trav' = Tail(trav)
           /\ pulled' = pulled + 1
           /\ IF frame_idx \in chosen_extra
              THEN /\ save_set(frame_idx)
                   /\ saved' = saved + 1
                   /\ pc' = IF saved + 1 >= Max(1, preview_num_frames)
                            THEN "done" ELSE "propagate"
              ELSE UNCHANGED << emitted, visKinds, outDir, maskedDir, previewDir, saved, pc >>
    /\ UNCHANGED << srcExists, srcFiles, dstFiles, AUTO_INDEX, promptsJson,
                    err, preview, preview_num_frames, preview_out, INPUT,
                    frame_paths, FRAME_IDX, points, labels, loaded, seedArgs,
                    chosen_extra, maskVars, flaskVars, otherVars >>

\* lines 281-282: one iteration of the full loop
RunFullStep ==
    /\ pc = "propagate" /\ ~preview /\ trav # <<>>
    /\ trav' = Tail(trav)
    /\ pulled' = pulled + 1
    /\ save_set(Head(trav))
    /\ UNCHANGED << srcExists, srcFiles, dstFiles, AUTO_INDEX, promptsJson,
                    pc, err, preview, preview_num_frames, preview_out, INPUT,
                    frame_paths, FRAME_IDX, points, labels, loaded, seedArgs,
                    chosen_extra, saved, maskVars, flaskVars, otherVars >>

\* lines 273-282, the source image of a frame to save cannot be read: the
\* exception leaves the loop and run_sam2
RunStepRaises ==
    /\ pc = "propagate" /\ trav # <<>>
    /\ preview => Head(trav) \in chosen_extra
    /\ trav' = Tail(trav)
    /\ pulled' = pulled + 1
    /\ save_set_raises(Head(trav))
    /\ UNCHANGED << srcExists, srcFiles, dstFiles, AUTO_INDEX, promptsJson,
                    preview, preview_num_frames, preview_out, INPUT,
                    frame_paths, FRAME_IDX, points, labels, loaded, seedArgs,
                    chosen_extra, saved, maskVars, flaskVars, otherVars >>

\* lines 273 / 281: propagate_in_video is exhausted, the loop ends
RunLoopEnds ==
    /\ pc = "propagate" /\ trav = <<>>
    /\ pc' = "done"
    /\ UNCHANGED << fsVars, err, preview, preview_num_frames, preview_out,
                    INPUT, frame_paths, FRAME_IDX, points, labels, loaded,
                    seedArgs, chosen_extra, saved, emitted, visKinds, trav, pulled,
                    maskVars, flaskVars, otherVars >>

RunStep ==
    \/ RunIndex
    \/ RunReadPrompts
    \/ RunGatherFrames
    \/ RunLoadModel
    \/ RunLoadModelFails
    \/ RunSeed
    \/ RunBeginPropagate
    \/ RunPreviewStep
    \/ RunFullStep
    \/ RunSeedRaises
    \/ RunStepRaises
    \/ RunLoopEnds


(***************************************************************************)
(* Specification of one run of video_predict.py, started on any source     *)
(* directory, any prompts.json and any command line.                       *)
(***************************************************************************)
\* the entries a source directory may hold
SourceNames ==
    { <<97, 46, 106, 112, 103>>,            \* "a.jpg"
      <<97, 98, 46, 106, 112, 101, 103>>,   \* "ab.jpeg"
      <<98, 46, 80, 78, 71>>,               \* "b.PNG"
      <<99, 46, 74, 112, 103>>,             \* "c.Jpg"
      <<100, 46, 116, 120, 116>>,           \* "d.txt"
      <<101, 46, 112, 110, 103>> }          \* "e.png"

\* what an earlier run on another source may have left in <INPUT>_indexed
StaleIndexed ==
    { [name |-> Fmt06(7) \o ACCEPT_EXTS[1], content |-> <<122, 46, 106, 112, 103>>] }

\* a prompts.json written by hand or by an earlier /save
SomePrompts(f) ==
    [frame_idx |-> f, obj_id |-> 1, points |-> << <<5, 6>> >>, labels |-> <<1>>,
     image_w |-> 10, image_h |-> 8]

MaskIdle  == maskIn = [tensor |-> FALSE, kind |-> "bool", px |-> <<>>] /\ maskOut = <<>>
FlaskIdle ==
    /\ FRAMES = <<>> /\ imageSize = <<0, 0>> /\ savePc = "idle"
    /\ request = <<>> /\ response = <<>>
NameIdle  ==
    /\ nameIn = [base_name |-> <<>>, obj_ids |-> <<>>, preview |-> FALSE, preview_out |-> "None"]
    /\ nameOut = <<>>
ConcIdle  ==
    /\ reqPc = <<>> /\ promptsBy = 0 /\ previewBy = {} /\ readBy = <<>>
IndexIdle == indexCalls = 0 /\ indexErr = "" /\ indexedSrc = <<>>
FlagIdle  ==
    /\ doneFlag = FALSE /\ useExisting = FALSE /\ routePc = "idle" /\ lastRoute = ""
OtherIdle == NameIdle /\ ConcIdle /\ IndexIdle /\ FlagIdle

RunFresh ==
    /\ pc = "start" /\ err = "" /\ INPUT = "src" /\ frame_paths = <<>>
    /\ FRAME_IDX = 0 /\ points = <<>> /\ labels = <<>> /\ loaded = FALSE
    /\ seedArgs = <<>> /\ chosen_extra = {} /\ saved = 0 /\ emitted = <<>> /\ visKinds = {}
    /\ trav = <<>> /\ pulled = 0

InitRun ==
    /\ srcExists \in BOOLEAN
    /\ srcFiles \in (IF srcExists THEN SUBSET SourceNames ELSE {{}})
    /\ dstFiles \in {{}, StaleIndexed}
    /\ AUTO_INDEX \in BOOLEAN
    /\ promptsJson \in {<<>>} \cup { <<SomePrompts(f)>> : f \in 0..MaxFrameIdx }
    /\ outDir = {} /\ maskedDir = {} /\ previewDir = {}
    /\ preview \in BOOLEAN
    /\ preview_num_frames \in (IF preview THEN 0..MaxPreviewNum ELSE {6})
    /\ preview_out \in (IF preview THEN BOOLEAN ELSE {FALSE})
    /\ RunFresh
    /\ MaskIdle
    /\ FlaskIdle
    /\ OtherIdle

SpecRun == InitRun /\ [][RunStep]_vars


(***************************************************************************)
(* Properties of one run (SpecRun)                                         *)
(***************************************************************************)
\* number of save_set calls for frame i
TimesEmitted(i) == Cardinality({k \in DOMAIN emitted : emitted[k] = i})

\* C1: a full run (preview = False) on N >= 1 frames with a prompt frame in
\* 0..N-1 calls save_set exactly N times, once for every frame index 0..N-1.
C1_FullRunEmitsEveryFrameOnce ==
    (pc = "done" /\ ~preview) =>
        /\ Len(emitted) = Len(frame_paths)
        /\ \A i \in 0..(Len(frame_paths) - 1) : TimesEmitted(i) = 1

\* C2: a preview run with requested count n on N >= 1 frames emits exactly
\* 1 + clamp(n - 1, 0, N - 1) results, whatever the prompt frame and the
\* sample.
C2_PreviewEmitsOnePlusExtra ==
    (pc = "done" /\ preview) =>
        Len(emitted) = 1 + Max(0, Min(preview_num_frames - 1, Len(frame_paths) - 1))

\* C3: in both modes the first save_set call of a run is the one for the
\* annotated frame of prompts.json, and nothing has been taken from
\* propagate_in_video before that call.
C3_AnnotatedFrameFirst ==
    /\ emitted # <<>> => emitted[1] = promptsJson[1].frame_idx
    /\ emitted = <<>> => (pulled = 0 /\ trav = <<>>)

\* a preview run and a full run that emitted the annotated frame 1 first and
\* then a frame the traversal yielded
C3_Witness ==
    /\ pc = "done" /\ FRAME_IDX = 1 /\ Len(emitted) >= 2
    /\ emitted[1] = 1 /\ pulled >= 1

\* C4: in a preview run the extra frames are indices of 0..N-1 other than the
\* annotated one, every emitted index is the annotated frame or one of the
\* extra frames, and no index is emitted twice.
C4_PreviewSampleAndNoDuplicate ==
    preview =>
        /\ chosen_extra \subseteq (0..(Len(frame_paths) - 1)) \ {FRAME_IDX}
        /\ \A k \in DOMAIN emitted : emitted[k] \in {FRAME_IDX} \cup chosen_extra
        /\ \A i \in 0..(Len(frame_paths) - 1) : TimesEmitted(i) <= 1

\* a preview run on three frames whose traversal yielded the annotated frame
\* 0 again and then the two sampled frames 1 and 2
C4_Witness ==
    /\ preview /\ pc = "done" /\ FRAME_IDX = 0 /\ chosen_extra = {1, 2}
    /\ emitted = <<0, 1, 2>> /\ pulled = 3


\* the source files with an accepted extension, compared case-insensitively
AcceptedSource == {n \in srcFiles : Lower(splitext(n)[2]) \in Range(ACCEPT_EXTS)}

\* ensure_indexed has run on an existing source directory
IndexingRan == srcExists /\ AUTO_INDEX /\ pc # "start"

\* the name the claim gives entry i (from 1) of the sorted accepted files
IndexedName(ord, i) == Fmt06(i - 1) \o Lower(splitext(ord[i])[2])

\* C5: after ensure_indexed on a source directory with N >= 1 files of an
\* accepted extension (jpg, jpeg, png, in any case), the destination holds
\* exactly the N entries named by the 6-digit indices 0..N-1, entry i is the
\* i-th source file in lexicographic order, and _gather_frames lists the
\* destination in index order.
C5_IndexedIsDenseAndOrdered ==
    (IndexingRan /\ AcceptedSource # {}) =>
        LET ord == Sorted(AcceptedSource)
        IN  /\ dstFiles = { [name |-> IndexedName(ord, i), content |-> ord[i]] :
                            i \in DOMAIN ord }
            /\ _gather_frames({e.name : e \in dstFiles})
                  = [i \in DOMAIN ord |-> IndexedName(ord, i)]

\* the input of the run is absent or holds no file of an accepted extension
NoInputFrames == ~srcExists \/ AcceptedSource = {}

\* C6 as stated: a run on an absent directory, or on one without accepted
\* files, ends in NotADirectoryError or in the no-frames error, and reaches
\* neither the model nor an emission.
C6_Original ==
    NoInputFrames =>
        /\ pc \in {"start", "paths", "prompts", "error"}
        /\ ~loaded /\ emitted = <<>>
        /\ pc = "error" => err \in {"NotADirectoryError", "FileNotFoundError:frames"}

\* C6 (amended): a run on an absent directory, or on one without accepted
\* files, ends in an error, which is the no-frames error or, when
\* prompts.json is absent as well, the missing-prompt error; it never gets
\* a frame sequence, never loads the model and emits nothing.
C6_NoFramesAlwaysFails ==
    NoInputFrames =>
        /\ pc \in {"start", "paths", "prompts", "error"}
        /\ frame_paths = <<>> /\ ~loaded /\ seedArgs = <<>> /\ emitted = <<>>
        /\ pc = "error" =>
              \/ err = "FileNotFoundError:frames"
              \/ err = "FileNotFoundError:prompts" /\ promptsJson = <<>>

\* the run on an absent directory, prompts.json present, failed on the frames
C6_Witness ==
    /\ ~srcExists /\ promptsJson # <<>>
    /\ pc = "error" /\ err = "FileNotFoundError:frames"

\* C7 as stated: without prompts.json the run fails with the missing-prompt
\* error before the model is loaded, seeded or propagated.
C7_Original ==
    promptsJson = <<>> =>
        /\ pc \in {"start", "paths", "error"}
        /\ ~loaded /\ seedArgs = <<>> /\ pulled = 0 /\ emitted = <<>>
        /\ pc = "error" => err = "FileNotFoundError:prompts"

\* C7 (amended): without prompts.json the run fails before the model is
\* loaded, seeded or propagated and emits nothing; the error is the
\* missing-prompt error, unless indexing has failed before with the
\* no-frames error (AUTO_INDEX on, the directory exists, no frame in it).
C7_MissingPromptFailsBeforeModel ==
    promptsJson = <<>> =>
        /\ pc \in {"start", "paths", "error"}
        /\ ~loaded /\ seedArgs = <<>> /\ pulled = 0 /\ emitted = <<>>
        /\ pc = "error" =>
              \/ err = "FileNotFoundError:prompts"
              \/ /\ err = "FileNotFoundError:frames"
                 /\ srcExists /\ AUTO_INDEX /\ _gather_frames(srcFiles) = <<>>

\* a run on three indexed frames that stopped on the missing prompts.json
C7_Witness ==
    /\ promptsJson = <<>> /\ pc = "error" /\ err = "FileNotFoundError:prompts"
    /\ INPUT = "dst" /\ Cardinality(dstFiles) = 3


\* C13: every mask and visualization file written for frame index i is
\* named after the base name (stem and extension) of the i-th original
\* source image, not after the six-digit index name, for every source
\* directory whose file names differ from the index names.
C13_ArtifactsNamedAfterSource ==
    LET orig == _gather_frames(srcFiles)
    IN  (\A k \in DOMAIN emitted : emitted[k] + 1 \in DOMAIN orig) =>
            outDir \cup maskedDir \cup previewDir
                \subseteq { orig[emitted[k] + 1] : k \in DOMAIN emitted }


\* C18: a failure while writing the artifacts of one frame (source image
\* unreadable or image write failure) is reported and does not abort the
\* run: every frame the traversal yields after the failing one still has
\* its artifacts written.
C18_WriteFailureDoesNotAbort ==
    ~(pc = "error" /\ err = "FileNotFoundError:image")


\* C20: the visualization policy is fixed by the mode of the run: every
\* visualization written by a preview run is an overlay, every
\* visualization written by a full run is a cutout, and one run never
\* mixes the two.
C20_VisualizationFollowsMode ==
    /\ preview => visKinds \subseteq {"overlay"}
    /\ ~preview => visKinds \subseteq {"cutout"}
    /\ Cardinality(visKinds) <= 1


\* C24: in a preview run, once the annotated frame and the extra sampled
\* frames are saved (saved = 1 + extra), no further result is pulled from
\* propagate_in_video, whatever --preview-num is.
C24_PreviewStopsPulling ==
    [][ ( /\ preview
          /\ pc = "propagate"
          /\ saved = 1 + ExtraNeeded(preview_num_frames, Len(frame_paths)) )
            => pulled' = pulled ]_vars

(***************************************************************************)
(* to_u8_mask                                                              *)
(*                                                                         *)
(* A mask is [tensor, kind, px]: tensor tells a torch.Tensor from a numpy  *)
(* array, kind is its dtype ("bool", "float" or "uint8") and px its        *)
(* pixels.  A float pixel is given in tenths (0..10 for 0.0..1.0).         *)
(***************************************************************************)
\* x > 0.5 on a float pixel given in tenths
AboveHalf(t) == 2 * t > 10

\* .to(torch.uint8) / .astype(np.uint8) of one pixel
AsUint8(kind, v) ==
    IF kind = "float" THEN (IF AboveHalf(v) THEN 1 ELSE 0)
    ELSE IF kind = "bool" THEN (IF v THEN 1 ELSE 0)
    ELSE v % 256

\* lines 74-85: both branches threshold a floating mask, convert to uint8
\* and return x * 255, a product of uint8 values that wraps at 256
to_u8_mask(x) == [i \in DOMAIN x.px |-> (AsUint8(x.kind, x.px[i]) * 255) % 256]

\* lines 231-233: mask_u8 = to_u8_mask(masks[k]); cv2.imwrite(mask_path, mask_u8)
MaskWrite ==
    /\ maskOut = <<>>
    /\ maskIn.px # <<>>
    /\ maskOut' = << to_u8_mask(maskIn) >>
    /\ UNCHANGED << maskIn, fsVars, runVars, flaskVars, otherVars >>

\* the pixel values of a mask of each kind
PixelValues(kind) ==
    IF kind = "bool" THEN BOOLEAN
    ELSE IF kind = "float" THEN 0..10
    ELSE {0, 255}

InitMask ==
    /\ \E tensor \in BOOLEAN, kind \in {"bool", "float", "uint8"}, n \in 1..MaxPixels :
          \E px \in [1..n -> PixelValues(kind)] :
              maskIn = [tensor |-> tensor, kind |-> kind, px |-> px]
    /\ maskOut = <<>>
    /\ srcExists = FALSE /\ srcFiles = {} /\ dstFiles = {} /\ AUTO_INDEX = TRUE
    /\ promptsJson = <<>> /\ outDir = {} /\ maskedDir = {} /\ previewDir = {}
    /\ preview = FALSE /\ preview_num_frames = 6 /\ preview_out = FALSE
    /\ RunFresh
    /\ FlaskIdle
    /\ OtherIdle

SpecMask == InitMask /\ [][MaskWrite]_vars

\* C8: whatever the kind of the mask (boolean, float in [0,1], 8-bit scaled
\* to 0/255), every pixel of the image to_u8_mask returns and save_set
\* writes is 0 or 255.
C8_MaskPixelsAreBinary ==
    maskOut # <<>> => \A i \in DOMAIN maskOut[1] : maskOut[1][i] \in {0, 255}


(***************************************************************************)
(* The Flask application: /save and the preview run it starts.             *)
(*                                                                         *)
(* The application and video_predict.py are configured for the same        *)
(* dataset: INPUT is the existing dataset directory, AUTO_INDEX has its    *)
(* default "1", so that OUT_DIR of the run is INDEXED_DIR of the           *)
(* application and both use the same prompts.json.                         *)
(***************************************************************************)
\* lines 838-848: Path.glob(pattern) for the six patterns, then sorted();
\* pathlib matches case-sensitively and lists hidden entries too
PathGlob(names, ext) ==
    {n \in names : /\ Len(n) >= Len(ext)
                   /\ SubSeq(n, Len(n) - Len(ext) + 1, Len(n)) = ext}

gather_frames(names) ==
    Sorted(UNION { PathGlob(names, ACCEPT_EXTS[k]) \cup PathGlob(names, Upper(ACCEPT_EXTS[k])) :
                   k \in DOMAIN ACCEPT_EXTS })

\* lines 851-860: INPUT first, <INPUT>_indexed when INPUT has no frame
resolve_frames(src, indexed) ==
    IF gather_frames(src) # <<>> THEN gather_frames(src) ELSE gather_frames(indexed)

\* float(v) of a JSON integer: an IEEE double holds every integer below
\* 2^53 exactly, which covers every integer of the model
ToFloat64(v) == v

\* a handler that appends [float(p["y"]), float(p["x"])]
ParsePointsSwapped(raw_arr) ==
    [pts  |-> [i \in DOMAIN raw_arr |-> << ToFloat64(raw_arr[i].y), ToFloat64(raw_arr[i].x) >>],
     labs |-> [i \in DOMAIN raw_arr |-> raw_arr[i].l]]

\* lines 1022-1027: pts and labs, appended in the order of the request
ParsePoints(raw_arr) ==
    [pts  |-> [i \in DOMAIN raw_arr |-> << ToFloat64(raw_arr[i].x), ToFloat64(raw_arr[i].y) >>],
     labs |-> [i \in DOMAIN raw_arr |-> raw_arr[i].l]]

\* a handler that adds the centre point to every request
CenterFallbackAlways(parsed, w, h) ==
    [pts  |-> Append(parsed.pts, << w \div 2, h \div 2 >>),
     labs |-> Append(parsed.labs, 1)]

\* lines 1034-1037: one positive point at the image centre when there is no click
CenterFallback(parsed, w, h) ==
    IF parsed.pts = <<>>
    THEN [pts |-> << << w \div 2, h \div 2 >> >>, labs |-> <<1>>]
    ELSE parsed

\* a handler that stores the frame number the page shows (1) as frame_idx
PromptRecordOneBased(p, w, h) ==
    [frame_idx |-> 1, obj_id |-> 1, points |-> p.pts, labels |-> p.labs,
     image_w |-> w, image_h |-> h]

\* lines 1039-1053: the record json.dump writes; json.load gives it back as it is
PromptRecord(p, w, h) ==
    [frame_idx |-> 0, obj_id |-> 1, points |-> p.pts, labels |-> p.labs,
     image_w |-> w, image_h |-> h]

\* lines 900-907: the names in PREVIEW_DIR, pattern by pattern, each sorted
Previews(dir) ==
    LET pats == << ACCEPT_EXTS[3], ACCEPT_EXTS[1], ACCEPT_EXTS[2],
                   Upper(ACCEPT_EXTS[3]), Upper(ACCEPT_EXTS[1]), Upper(ACCEPT_EXTS[2]) >>
    IN  Sorted(PathGlob(dir, pats[1])) \o Sorted(PathGlob(dir, pats[2]))
          \o Sorted(PathGlob(dir, pats[3])) \o Sorted(PathGlob(dir, pats[4]))
          \o Sorted(PathGlob(dir, pats[5])) \o Sorted(PathGlob(dir, pats[6]))

RunIdle ==
    /\ pc = "idle" /\ err = "" /\ INPUT = "src" /\ frame_paths = <<>>
    /\ FRAME_IDX = 0 /\ points = <<>> /\ labels = <<>> /\ loaded = FALSE
    /\ seedArgs = <<>> /\ chosen_extra = {} /\ saved = 0 /\ emitted = <<>> /\ visKinds = {}
    /\ trav = <<>> /\ pulled = 0
    /\ preview = FALSE /\ preview_num_frames = 6 /\ preview_out = FALSE

\* an error helper that answers ok
_json_errSilent(http) == [ok |-> TRUE, http |-> 200, previews |-> <<>>]

\* lines 917-918: jsonify(ok=False, error=msg) with the HTTP status
_json_err(http) == [ok |-> FALSE, http |-> http, previews |-> <<>>]

\* lines 1002-1063: /save is the request being handled; it touches neither
\* flag file
SaveKeepsFlags ==
    /\ lastRoute' = "/save"
    /\ UNCHANGED << doneFlag, useExisting, routePc >>

\* lines 1012-1013: no frame was found at start-up
SaveNoFrames ==
    /\ savePc = "idle" /\ routePc = "idle"
    /\ FRAMES = <<>>
    /\ response' = << _json_err(400) >>
    /\ SaveKeepsFlags
    /\ UNCHANGED << fsVars, runVars, maskVars, nameVars, concVars, indexVars,
                    FRAMES, imageSize, savePc, request >>

\* the click of a /save request: {"x": .., "y": .., "l": ..}
Clicks ==
    { [x |-> 3, y |-> 4, l |-> 1],
      [x |-> 9, y |-> 2, l |-> 0],
      [x |-> 16777217, y |-> 4, l |-> 1] }

\* lines 1016-1021: the handler takes whatever JSON the body holds; a body
\* that does not come from the page can carry any label, or none
ForeignBodies ==
    { << [x |-> 5, y |-> 6, l |-> 2] >>,
      << [x |-> 3, y |-> 4, l |-> 1], [x |-> 5, y |-> 6, l |-> 2] >>,
      << [x |-> 5, y |-> 6] >>,
      << [x |-> 3, y |-> 4, l |-> 1], [x |-> 5, y |-> 6] >>,
      << [x |-> 5, y |-> 6], [x |-> 9, y |-> 2, l |-> 0] >> }

\* lines 1025-1027: p["l"] of an entry without the key "l" raises KeyError
KeyErrorRaised(raw_arr) == \E i \in DOMAIN raw_arr : "l" \notin DOMAIN raw_arr[i]

RECURSIVE SeqsUpTo(_, _)
SeqsUpTo(S, n) ==
    IF n = 0 THEN {<<>>}
    ELSE SeqsUpTo(S, n - 1) \cup
         { Append(q, e) : q \in {r \in SeqsUpTo(S, n - 1) : Len(r) = n - 1}, e \in S }

\* the lists of entries a /save body can hold for frame 0
Bodies == SeqsUpTo(Clicks, MaxPoints) \cup ForeignBodies

\* lines 875-879: every entry of PREVIEW_DIR is unlinked; an unlink that
\* raises is passed over and its file stays
UnlinkPreviews(dir) == SUBSET dir

\* lines 1015-1056 and 874-895: the request is parsed, prompts.json is
\* written, PREVIEW_DIR is emptied and video_predict.py is started with
\* --preview --preview-num-frames 6 --preview-out PREVIEW_DIR
SaveBegin ==
    /\ savePc = "idle" /\ routePc = "idle"
    /\ FRAMES # <<>>
    /\ \E raw_arr \in Bodies :
          /\ ~KeyErrorRaised(raw_arr)
          /\ request' = << raw_arr >>
          /\ promptsJson' =
                << PromptRecord(CenterFallback(ParsePoints(raw_arr), imageSize[1], imageSize[2]),
                                imageSize[1], imageSize[2]) >>
    /\ previewDir' \in UnlinkPreviews(previewDir)
    /\ pc' = "start" /\ err' = "" /\ INPUT' = "src" /\ frame_paths' = <<>>
    /\ FRAME_IDX' = 0 /\ points' = <<>> /\ labels' = <<>> /\ loaded' = FALSE
    /\ seedArgs' = <<>> /\ chosen_extra' = {} /\ saved' = 0 /\ emitted' = <<>> /\ visKinds' = {}
    /\ trav' = <<>> /\ pulled' = 0
    /\ preview' = TRUE /\ preview_num_frames' = 6 /\ preview_out' = TRUE
    /\ savePc' = "running"
    /\ SaveKeepsFlags
    /\ UNCHANGED << srcExists, srcFiles, dstFiles, AUTO_INDEX, outDir, maskedDir,
                    maskVars, nameVars, concVars, indexVars, FRAMES, imageSize,
                    response >>

\* lines 1015-1027 and 1062-1063: the loop over the entries raises before
\* prompts.json is opened; the handler answers 500 and has written nothing
SaveRaises ==
    /\ savePc = "idle" /\ routePc = "idle"
    /\ FRAMES # <<>>
    /\ \E raw_arr \in Bodies :
          /\ KeyErrorRaised(raw_arr)
          /\ request' = << raw_arr >>
    /\ response' = << _json_err(500) >>
    /\ SaveKeepsFlags
    /\ UNCHANGED << fsVars, runVars, maskVars, nameVars, concVars, indexVars,
                    FRAMES, imageSize, savePc >>

\* a helper that lists PREVIEW_DIR also after a failed run
run_preview_masksListsAnyway(failed, dir) == Previews(dir)

\* lines 893-907: the result of run_preview_masks once the subprocess has
\* ended: [] when it failed (CalledProcessError), else the listing
run_preview_masks(failed, dir) == IF failed THEN <<>> ELSE Previews(dir)

\* the handler of an earlier version, which created DONE_FLAG itself
SaveDoneFlagTouched(done) == TRUE

\* lines 1058-1060: /save answers without touching DONE_FLAG
SaveDoneFlag(done) == done

\* lines 895-907 and 1056-1060: the subprocess has ended; a failed run gives
\* no preview, otherwise PREVIEW_DIR is listed; the answer is ok either way
SaveEnd ==
    /\ savePc = "running"
    /\ pc \in {"done", "error"}
    /\ response' = << [ok |-> TRUE, http |-> 200,
                       previews |-> run_preview_masks(pc = "error", previewDir)] >>
    /\ savePc' = "idle"
    /\ pc' = "idle" /\ err' = "" /\ INPUT' = "src" /\ frame_paths' = <<>>
    /\ FRAME_IDX' = 0 /\ points' = <<>> /\ labels' = <<>> /\ loaded' = FALSE
    /\ seedArgs' = <<>> /\ chosen_extra' = {} /\ saved' = 0 /\ emitted' = <<>> /\ visKinds' = {}
    /\ trav' = <<>> /\ pulled' = 0
    /\ preview' = FALSE /\ preview_num_frames' = 6 /\ preview_out' = FALSE
    /\ doneFlag' = SaveDoneFlag(doneFlag)
    /\ UNCHANGED << fsVars, maskVars, nameVars, concVars, indexVars, useExisting,
                    routePc, lastRoute, FRAMES, imageSize, request >>

\* the dataset directories the application is started on
SaveSources ==
    { {},
      { <<97, 46, 106, 112, 103>> },                                     \* a.jpg
      { <<97, 46, 106, 112, 103>>, <<98, 46, 80, 78, 71>>,
        <<99, 46, 74, 112, 103>> },                                      \* a.jpg b.PNG c.Jpg
      { <<97, 46, 106, 112, 103>>, <<97, 98, 46, 106, 112, 101, 103>>,
        <<101, 46, 112, 110, 103>> } }                                   \* a.jpg ab.jpeg e.png

\* what an earlier session of the application may have left in PREVIEW_DIR
StalePreviews == { Fmt06(7) \o ACCEPT_EXTS[1] }

InitSave ==
    /\ srcExists = TRUE
    /\ srcFiles \in SaveSources
    /\ dstFiles \in {{}, StaleIndexed}
    /\ AUTO_INDEX = TRUE
    /\ promptsJson = <<>>
    /\ outDir = {} /\ maskedDir = {}
    /\ previewDir \in {{}, StalePreviews}
    /\ RunIdle
    /\ MaskIdle
    /\ FRAMES = resolve_frames(srcFiles, {e.name : e \in dstFiles})
    /\ imageSize \in {<<10, 8>>, <<7, 5>>}
    /\ savePc = "idle" /\ request = <<>> /\ response = <<>>
    /\ OtherIdle

SaveNext ==
    \/ SaveNoFrames
    \/ SaveBegin
    \/ SaveRaises
    \/ RunIndex
    \/ RunReadPrompts
    \/ RunGatherFrames
    \/ RunLoadModel
    \/ RunLoadModelFails
    \/ RunSeed
    \/ RunBeginPropagate
    \/ RunPreviewStep
    \/ RunSeedRaises
    \/ RunStepRaises
    \/ RunLoopEnds
    \/ SaveEnd

SpecSave == InitSave /\ [][SaveNext]_vars


(***************************************************************************)
(* Properties of /save (SpecSave)                                          *)
(***************************************************************************)
\* the points and the labels of a request, as the client sent them
SentPoints(raw_arr) == [i \in DOMAIN raw_arr |-> << raw_arr[i].x, raw_arr[i].y >>]
SentLabels(raw_arr) == [i \in DOMAIN raw_arr |-> raw_arr[i].l]

\* C9: a /save with no point for the frame persists exactly one point, the
\* image centre (w // 2, h // 2), with label 1; a /save with one or more
\* points persists exactly the points and labels supplied, no centre added.
C9_CenterFallbackOnlyWhenEmpty ==
    [][ (savePc = "idle" /\ savePc' = "running") =>
          LET raw_arr == request'[1]
              J       == promptsJson'[1]
          IN  /\ raw_arr = <<>> =>
                    /\ J.points = << << imageSize[1] \div 2, imageSize[2] \div 2 >> >>
                    /\ J.labels = <<1>>
              /\ raw_arr # <<>> =>
                    /\ J.points = SentPoints(raw_arr)
                    /\ J.labels = SentLabels(raw_arr) ]_vars

\* a /save without any click on a 7 x 5 image has stored the centre (3, 2)
C9_Witness ==
    /\ savePc = "running" /\ request = << <<>> >> /\ imageSize = <<7, 5>>
    /\ promptsJson # <<>>
    /\ promptsJson[1].points = << <<3, 2>> >> /\ promptsJson[1].labels = <<1>>

\* the seed call of the run started by the /save in progress has been made
SeededFromSave == savePc = "running" /\ seedArgs # <<>> /\ request[1] # <<>>

\* C10 as stated: for every non-empty list of points with labels sent to
\* /save, the points and labels run_sam2 passes to the seed call are the
\* values sent, in the same order and number.
C10_Original ==
    SeededFromSave =>
        /\ seedArgs[1].points = SentPoints(request[1])
        /\ seedArgs[1].labels = SentLabels(request[1])

\* an integer that float32 holds exactly
Float32Exact(v) == 0 - 2 ^ 24 <= v /\ v <= 2 ^ 24

\* C10 (amended): for every non-empty list of points whose coordinates are
\* integers of magnitude at most 2^24 (the pixel coordinates the page
\* sends), with integer labels, the points and labels passed to the seed
\* call are the values sent, in the same order and number.
C10_RoundTripOfExactCoordinates ==
    (/\ SeededFromSave
     /\ \A i \in DOMAIN request[1] :
           Float32Exact(request[1][i].x) /\ Float32Exact(request[1][i].y)) =>
        /\ seedArgs[1].points = SentPoints(request[1])
        /\ seedArgs[1].labels = SentLabels(request[1])
        /\ Len(seedArgs[1].points) = Len(request[1])
        /\ Len(seedArgs[1].labels) = Len(request[1])

\* the run was seeded with the two different clicks (9,2,0), (3,4,1) of a /save
C10_Witness ==
    /\ SeededFromSave
    /\ request[1] = << [x |-> 9, y |-> 2, l |-> 0], [x |-> 3, y |-> 4, l |-> 1] >>
    /\ seedArgs[1].points = << <<9, 2>>, <<3, 4>> >>
    /\ seedArgs[1].labels = <<0, 1>>

\* an entry of the request has a point and no label
PointWithoutLabel(raw_arr) == \E i \in DOMAIN raw_arr : DOMAIN raw_arr[i] = {"x", "y"}

\* C11: a /save whose points and labels cannot be paired one to one (an
\* entry with a point and no label) is answered with an error and leaves
\* prompts.json as it was; every record that is persisted has as many
\* labels as points.
C11_UnpairedPromptRejected ==
    [][ /\ (request' # request /\ PointWithoutLabel(request'[1])) =>
              /\ response'[1].ok = FALSE
              /\ response'[1].http = 500
              /\ promptsJson' = promptsJson
        /\ promptsJson' # <<>> =>
              Len(promptsJson'[1].points) = Len(promptsJson'[1].labels) ]_vars

\* after a stored prompt of two points, a /save with a labelled and an
\* unlabelled entry was answered 500 and the stored prompt is still there
C11_Witness ==
    /\ savePc = "idle"
    /\ request = << << [x |-> 3, y |-> 4, l |-> 1], [x |-> 5, y |-> 6] >> >>
    /\ response = << [ok |-> FALSE, http |-> 500, previews |-> <<>>] >>
    /\ promptsJson # <<>>
    /\ Len(promptsJson[1].points) = 2 /\ Len(promptsJson[1].labels) = 2

\* C12: a /save with a label other than 0 or 1 is rejected with an error
\* and nothing is persisted: every label in prompts.json is 0 or 1.
C12_LabelsAreZeroOrOne ==
    promptsJson # <<>> =>
        \A i \in DOMAIN promptsJson[1].labels : promptsJson[1].labels[i] \in {0, 1}

\* the answer of a /save whose preview run has ended is being sent
SaveAnswers == savePc = "running" /\ savePc' = "idle"

\* the files the preview run of the /save in progress has written
WrittenByRun == { OutName(frame_paths, emitted[k]) : k \in DOMAIN emitted }

\* C15: stale previews are never shown: every file name run_preview_masks
\* returns, and /save sends, was written by the propagation run started in
\* that same call; no file left by an earlier preview run is in the list,
\* also when a deletion fails or the run fails.
C15_NoStalePreview ==
    [][ SaveAnswers => Range(response'[1].previews) \subseteq WrittenByRun ]_vars

\* C16: the list of previews /save hands back always contains the annotated
\* frame and has it as its first element, for every mix of file extensions
\* among the sampled frames.
C16_AnnotatedFrameFirstInList ==
    [][ (SaveAnswers /\ pc = "done") =>
            /\ response'[1].previews # <<>>
            /\ response'[1].previews[1] = OutName(frame_paths, FRAME_IDX) ]_vars

\* C21: whenever run_sam2 seeds the model from a record written by /save,
\* the record's frame_idx is a valid index of that run's frame sequence:
\* 0 <= frame_idx < N, N being the number of frames gathered for the run.
C21_SavedFrameIdxIsValid ==
    (savePc = "running" /\ seedArgs # <<>>) =>
        /\ seedArgs[1].frame_idx = promptsJson[1].frame_idx
        /\ 0 <= seedArgs[1].frame_idx
        /\ seedArgs[1].frame_idx < Len(frame_paths)

\* the run started by a /save on a.jpg, ab.jpeg, e.png was seeded on frame
\* 0 of its three frames
C21_Witness ==
    /\ savePc = "running" /\ pc = "seeded"
    /\ Len(frame_paths) = 3
    /\ seedArgs # <<>> /\ seedArgs[1].frame_idx = 0
    /\ promptsJson # <<>> /\ promptsJson[1].frame_idx = 0


\* the record /save stores for the request being handled (lines 1015-1053)
RecordOfRequest ==
    PromptRecord(CenterFallback(ParsePoints(request[1]), imageSize[1], imageSize[2]),
                 imageSize[1], imageSize[2])

\* C27: prompts.json holds the complete record of the request from the
\* moment the preview run is launched and through all of its steps; when
\* the run fails, /save answers ok with an empty preview list and
\* prompts.json still holds that record.
C27_FailedPreviewKeepsPrompts ==
    [][ /\ savePc' = "running" => promptsJson' = << RecordOfRequest' >>
        /\ (SaveAnswers /\ pc = "error") =>
              /\ response'[1].ok
              /\ response'[1].previews = <<>>
              /\ promptsJson' = << RecordOfRequest' >> ]_vars

\* /save has answered ok without previews although PREVIEW_DIR holds an
\* image (an old one, or the annotated frame written before the failure):
\* its preview run failed, and the record of the two clicks is in
\* prompts.json
C27_Witness ==
    /\ savePc = "idle" /\ lastRoute = "/save"
    /\ response # <<>> /\ response[1].ok /\ response[1].previews = <<>>
    /\ previewDir # {}
    /\ Len(request[1]) = 2
    /\ promptsJson = << RecordOfRequest >>

(***************************************************************************)
(* The other routes of the application and the flag files.                 *)
(*                                                                         *)
(* The requests are those of one user session, handled one after the       *)
(* other: a handler starts when the one before has answered.  A process    *)
(* polling the flag files may look at them in every state, also between    *)
(* the two touches of /use_existing.                                       *)
(***************************************************************************)

RouteIdle == savePc = "idle" /\ routePc = "idle"

\* what a handler other than /save leaves alone
RouteUnchanged ==
    UNCHANGED << srcExists, srcFiles, dstFiles, AUTO_INDEX, outDir, maskedDir,
                 runVars, maskVars, nameVars, concVars, indexVars, FRAMES,
                 imageSize, savePc, request >>

\* lines 913-914: _json_ok(msg=...)
_json_ok(msg) == [ok |-> TRUE, http |-> 200, msg |-> msg]

\* lines 1065-1073: /confirm creates DONE_FLAG
Confirm ==
    /\ RouteIdle
    /\ doneFlag' = TRUE
    /\ response' = << _json_ok("confirmed") >>
    /\ lastRoute' = "/confirm"
    /\ RouteUnchanged
    /\ UNCHANGED << promptsJson, previewDir, useExisting, routePc >>

\* lines 1074-1075: DONE_FLAG.touch() raised
ConfirmRaises ==
    /\ RouteIdle
    /\ response' = << _json_err(500) >>
    /\ lastRoute' = "/confirm"
    /\ RouteUnchanged
    /\ UNCHANGED << promptsJson, previewDir, doneFlag, useExisting, routePc >>

\* lines 1078-1094: /restart removes prompts.json, unlinks the previews (a
\* failed unlink is passed over), removes both flags and answers ok
Restart ==
    /\ RouteIdle
    /\ promptsJson' = <<>>
    /\ previewDir' \in UnlinkPreviews(previewDir)
    /\ doneFlag' = FALSE
    /\ useExisting' = FALSE
    /\ response' = << _json_ok("restarted") >>
    /\ lastRoute' = "/restart"
    /\ RouteUnchanged
    /\ UNCHANGED routePc

\* lines 1095-1096: one of the three unlink(missing_ok=True) calls raised,
\* stage 1 at prompts.json (line 1085), 2 at DONE_FLAG (1092), 3 at
\* USE_EXISTING (1093); what was removed before stays removed
RestartRaises ==
    /\ RouteIdle
    /\ \E stage \in 1..3 :
          /\ promptsJson' = IF stage > 1 THEN <<>> ELSE promptsJson
          /\ IF stage > 1 THEN previewDir' \in UnlinkPreviews(previewDir)
                          ELSE previewDir' = previewDir
          /\ doneFlag' = IF stage > 2 THEN FALSE ELSE doneFlag
    /\ response' = << _json_err(500) >>
    /\ lastRoute' = "/restart"
    /\ RouteUnchanged
    /\ UNCHANGED << useExisting, routePc >>

\* lines 961-971: /create_new removes prompts.json and USE_EXISTING and
\* redirects to the picker
CreateNew ==
    /\ RouteIdle
    /\ promptsJson' = <<>>
    /\ useExisting' = FALSE
    /\ response' = << [http |-> 302, location |-> "/pick"] >>
    /\ lastRoute' = "/create_new"
    /\ RouteUnchanged
    /\ UNCHANGED << previewDir, doneFlag, routePc >>

\* lines 969-970: one of the two unlink calls raised, stage 1 at prompts.json,
\* 2 at USE_EXISTING
CreateNewRaises ==
    /\ RouteIdle
    /\ \E stage \in 1..2 :
          promptsJson' = IF stage > 1 THEN <<>> ELSE promptsJson
    /\ response' = << _json_err(500) >>
    /\ lastRoute' = "/create_new"
    /\ RouteUnchanged
    /\ UNCHANGED << previewDir, doneFlag, useExisting, routePc >>

\* a handler that creates DONE_FLAG first
use_existing_touchesSwapped == << "DONE_FLAG", "USE_EXISTING" >>

\* lines 949-950: the two touches of /use_existing, in the order of the code
use_existing_touches == << "USE_EXISTING", "DONE_FLAG" >>

\* Path.touch() on one of the two flag files
Touch(flag) ==
    /\ doneFlag' = (doneFlag \/ flag = "DONE_FLAG")
    /\ useExisting' = (useExisting \/ flag = "USE_EXISTING")

\* line 949: the first touch
UseExistingBegin ==
    /\ RouteIdle
    /\ Touch(use_existing_touches[1])
    /\ routePc' = "use_existing"
    /\ lastRoute' = "/use_existing"
    /\ RouteUnchanged
    /\ UNCHANGED << promptsJson, previewDir, response >>

\* lines 950-957: the second touch, then the page DONE_HTML
UseExistingEnd ==
    /\ routePc = "use_existing"
    /\ Touch(use_existing_touches[2])
    /\ routePc' = "idle"
    /\ response' = << [http |-> 200, html |-> "DONE_HTML"] >>
    /\ RouteUnchanged
    /\ UNCHANGED << promptsJson, previewDir, lastRoute >>

\* lines 949-950: a touch raised; the route has no handler for it and Flask
\* answers 500, a first touch that succeeded stays
UseExistingRaises ==
    /\ \/ RouteIdle
       \/ routePc = "use_existing"
    /\ routePc' = "idle"
    /\ response' = << [http |-> 500, html |-> "Internal Server Error"] >>
    /\ lastRoute' = "/use_existing"
    /\ RouteUnchanged
    /\ UNCHANGED << promptsJson, previewDir, doneFlag, useExisting >>

\* the application starts on a dataset with neither flag and no prompts.json
InitRoutes ==
    /\ srcExists = TRUE
    /\ srcFiles \in { {}, { <<97, 46, 106, 112, 103>>, <<98, 46, 80, 78, 71>>,
                            <<99, 46, 74, 112, 103>> } }       \* a.jpg b.PNG c.Jpg
    /\ dstFiles = {}
    /\ AUTO_INDEX = TRUE
    /\ promptsJson = <<>>
    /\ outDir = {} /\ maskedDir = {}
    /\ previewDir \in {{}, StalePreviews}
    /\ RunIdle
    /\ MaskIdle
    /\ FRAMES = resolve_frames(srcFiles, {e.name : e \in dstFiles})
    /\ imageSize = <<7, 5>>
    /\ savePc = "idle" /\ request = <<>> /\ response = <<>>
    /\ OtherIdle

RoutesNext ==
    \/ SaveNext
    \/ Confirm
    \/ ConfirmRaises
    \/ Restart
    \/ RestartRaises
    \/ CreateNew
    \/ CreateNewRaises
    \/ UseExistingBegin
    \/ UseExistingEnd
    \/ UseExistingRaises

SpecRoutes == InitRoutes /\ [][RoutesNext]_vars

(***************************************************************************)
(* Properties of the routes (SpecRoutes)                                   *)
(***************************************************************************)

\* C22: a /save request, whatever its outcome (success, no frames, failed
\* preview run, exception), leaves DONE_FLAG as it was: no step of the
\* handler changes it.
C22_SaveLeavesDoneFlag ==
    [][ lastRoute' = "/save" => doneFlag' = doneFlag ]_vars

\* a /save that answered ok while DONE_FLAG, created by an earlier /confirm,
\* was there and still is
C22_Witness ==
    /\ lastRoute = "/save" /\ savePc = "idle"
    /\ response # <<>> /\ response[1].ok /\ response[1].previews # <<>>
    /\ doneFlag

\* C23: after a /restart that answered ok, prompts.json, DONE_FLAG and
\* USE_EXISTING are gone and the preview directory is empty.
C23_RestartClearsEverything ==
    (lastRoute = "/restart" /\ response # <<>> /\ response[1].ok) =>
        /\ promptsJson = <<>>
        /\ ~doneFlag
        /\ ~useExisting
        /\ previewDir = {}

\* C25: whatever requests were handled since the start without flag and
\* without prompts.json, DONE_FLAG exists only if prompts.json exists.
C25_DoneFlagImpliesPrompts ==
    doneFlag => promptsJson # <<>>

\* C26: /use_existing creates USE_EXISTING before DONE_FLAG: between its two
\* touches DONE_FLAG is never present without USE_EXISTING, and the step of
\* /use_existing that creates DONE_FLAG starts with USE_EXISTING present.
C26_UseExistingBeforeDone ==
    [][ /\ (routePc' = "use_existing" /\ doneFlag') => useExisting'
        /\ (lastRoute' = "/use_existing" /\ ~doneFlag /\ doneFlag')
               => (useExisting /\ useExisting') ]_vars

\* between the two touches: USE_EXISTING is there, DONE_FLAG not yet
C26_Witness ==
    /\ routePc = "use_existing"
    /\ lastRoute = "/use_existing"
    /\ useExisting
    /\ ~doneFlag

(***************************************************************************)
(* The files of save_set, for any frame, any list of object ids and any    *)
(* command line.                                                           *)
(***************************************************************************)
\* base names a frame of INPUT can have: what _gather_frames accepts
FrameNames ==
    Range(_gather_frames(SourceNames)) \cup {Fmt06(0) \o ACCEPT_EXTS[1], Fmt06(12) \o ACCEPT_EXTS[3]}

\* lists of between 1 and n different object ids
ObjIdLists(n) ==
    {q \in SeqsUpTo(0..MaxObjId, n) :
        q # <<>> /\ \A i, j \in DOMAIN q : i # j => q[i] # q[j]}

\* line 173: OUT_DIR = OUT_ROOT/<out_name>
OUT_DIR == "OUT_ROOT/out_name"

\* point_picker_flask.py line 51, the --preview-out of the application:
\* PREVIEW_DIR = INDEXED_DIR/preview, INDEXED_DIR being the run's OUT_DIR
PREVIEW_DIR == "OUT_ROOT/out_name/preview"

\* --preview-out: absent, the directory the application gives, or any
\* other directory of the caller's choice, OUT_DIR included
PreviewOutArgs == {"None", PREVIEW_DIR, OUT_DIR}

\* lines 177-180: where the visualizations go
OUT_MASKED_DIR(pv, pv_out) ==
    IF pv /\ pv_out # "None" THEN pv_out ELSE "OUT_ROOT/out_name_masked"

\* lines 216-247: the files of one call of save_set, object by object; the
\* mask goes to OUT_DIR and the visualization to OUT_MASKED_DIR
SaveSetNames ==
    /\ nameOut = <<>>
    /\ LET single_obj == Len(nameIn.obj_ids) = 1
           out_name   == [k \in DOMAIN nameIn.obj_ids |->
                            ArtifactName(nameIn.base_name, single_obj, nameIn.obj_ids[k])]
           vis_dir    == OUT_MASKED_DIR(nameIn.preview, nameIn.preview_out)
       IN  nameOut' = << [masks |-> [k \in DOMAIN out_name |-> << OUT_DIR, out_name[k] >>],
                          vis   |-> [k \in DOMAIN out_name |-> << vis_dir, out_name[k] >>]] >>
    /\ UNCHANGED << nameIn, fsVars, runVars, maskVars, flaskVars, concVars,
                    indexVars, flagVars >>

InitNames ==
    /\ nameIn \in { r \in [base_name : FrameNames, obj_ids : ObjIdLists(MaxObjects),
                            preview : BOOLEAN, preview_out : PreviewOutArgs] :
                        ~r.preview => r.preview_out = "None" }
    /\ nameOut = <<>>
    /\ srcExists = FALSE /\ srcFiles = {} /\ dstFiles = {} /\ AUTO_INDEX = TRUE
    /\ promptsJson = <<>> /\ outDir = {} /\ maskedDir = {} /\ previewDir = {}
    /\ RunIdle
    /\ MaskIdle
    /\ FlaskIdle
    /\ ConcIdle
    /\ IndexIdle
    /\ FlagIdle

SpecNames == InitNames /\ [][SaveSetNames]_vars

\* the names of one call: no suffix for a single object id, else
\* stem + "_obj" + oid + extension, different for different ids, the
\* visualization named as its mask
NamesAsStated ==
    LET ids  == nameIn.obj_ids
        stem == splitext(nameIn.base_name)[1]
        ext  == splitext(nameIn.base_name)[2]
        m    == nameOut[1].masks
        v    == nameOut[1].vis
    IN  /\ Len(m) = Len(ids) /\ Len(v) = Len(ids)
        /\ Len(ids) = 1 => m[1][2] = stem \o ext
        /\ Len(ids) > 1 =>
              \A k \in DOMAIN ids :
                  m[k][2] = stem \o <<95, 111, 98, 106>> \o Str(ids[k]) \o ext
        /\ \A j, k \in DOMAIN ids : j # k => m[j][2] # m[k][2]
        /\ \A k \in DOMAIN ids : v[k][2] = m[k][2]

\* the mask and the visualization of every object are in different directories
TwoDirectories ==
    \A k \in DOMAIN nameIn.obj_ids : nameOut[1].vis[k][1] # nameOut[1].masks[k][1]

IndexUnchanged ==
    UNCHANGED << runVars, maskVars, flaskVars, nameVars, concVars, flagVars >>

\* lines 46-70: one call of ensure_indexed(INPUT, INDEX_SUFFIX)
CallEnsureIndexed ==
    /\ indexCalls < MaxIndexCalls
    /\ LET r == ensure_indexed(srcExists, srcFiles, dstFiles)
       IN  /\ dstFiles' = r.dst
           /\ indexErr' = r.err
           /\ indexedSrc' = IF r.err = "" THEN Append(indexedSrc, srcFiles) ELSE indexedSrc
    /\ indexCalls' = indexCalls + 1
    /\ UNCHANGED << srcExists, srcFiles, AUTO_INDEX, promptsJson, outDir, maskedDir,
                    previewDir >>
    /\ IndexUnchanged

\* between two calls the user puts other images into INPUT
SourceChanges ==
    /\ srcExists
    /\ indexCalls < MaxIndexCalls
    /\ srcFiles' \in SaveSources \ {srcFiles}
    /\ UNCHANGED << srcExists, dstFiles, AUTO_INDEX, promptsJson, outDir, maskedDir,
                    previewDir, indexVars >>
    /\ IndexUnchanged

InitIndex ==
    /\ srcExists \in BOOLEAN
    /\ srcFiles \in (IF srcExists THEN SaveSources ELSE {{}})
    /\ dstFiles \in {{}, StaleIndexed}
    /\ AUTO_INDEX = TRUE
    /\ promptsJson = <<>> /\ outDir = {} /\ maskedDir = {} /\ previewDir = {}
    /\ IndexIdle
    /\ RunIdle
    /\ MaskIdle
    /\ FlaskIdle
    /\ NameIdle
    /\ ConcIdle
    /\ FlagIdle

IndexNext == CallEnsureIndexed \/ SourceChanges

SpecIndex == InitIndex /\ [][IndexNext]_vars

\* a call of ensure_indexed has returned
IndexReturns == indexCalls' = indexCalls + 1 /\ indexErr' = ""

\* C19: ensure_indexed is idempotent on an unchanged source: the second of
\* two runs leaves the destination with the same names and the same
\* contents as the first; and after any run (any call that returns) the
\* destination holds no entry left over from an earlier run on a larger or
\* different source: its entries are copies of the gathered frames of the
\* present source, one each.
C19_IndexingIsIdempotent ==
    [][ IndexReturns =>
          /\ (indexedSrc # <<>> /\ indexedSrc[Len(indexedSrc)] = srcFiles) =>
                dstFiles' = dstFiles
          /\ \A e \in dstFiles' : e.content \in Range(_gather_frames(srcFiles))
          /\ \A e, g \in dstFiles' : e.content = g.content => e = g
          /\ Cardinality(dstFiles') = Len(_gather_frames(srcFiles)) ]_vars

\* ensure_indexed ran on three images, then twice on a.jpg alone: the
\* destination holds the one copy 000000.jpg of a.jpg
C19_Witness ==
    /\ indexCalls = 3 /\ indexErr = ""
    /\ indexedSrc = << { <<97, 46, 106, 112, 103>>, <<97, 98, 46, 106, 112, 101, 103>>,
                         <<101, 46, 112, 110, 103>> },
                       { <<97, 46, 106, 112, 103>> }, { <<97, 46, 106, 112, 103>> } >>
    /\ dstFiles = { [name |-> Fmt06(0) \o ACCEPT_EXTS[1], content |-> <<97, 46, 106, 112, 103>>] }


(***************************************************************************)
(* Several /save requests at once.                                         *)
(*                                                                         *)
(* app.run (line 1122) starts the development server of Flask, which       *)
(* serves every request in a thread of its own; the module holds no lock   *)
(* and video_predict.py takes none.  Each request is followed through the  *)
(* points where it touches what the requests share: prompts.json,          *)
(* PREVIEW_DIR and the indexed directory.                                  *)
(***************************************************************************)
Clients == 1..MaxClients

\* the positions at which the video_predict.py of a request is running
RunActive == {"run", "indexed", "loaded"}

ConcUnchanged ==
    UNCHANGED << fsVars, runVars, maskVars, flaskVars, nameVars, indexVars,
                 flagVars >>

\* lines 1015-1053: the handler writes prompts.json
ReqWritesPrompts(t) ==
    /\ reqPc[t] = "idle"
    /\ reqPc' = [reqPc EXCEPT ![t] = "written"]
    /\ promptsBy' = t
    /\ UNCHANGED << previewBy, readBy >>
    /\ ConcUnchanged

\* lines 875-895: run_preview_masks empties PREVIEW_DIR and starts
\* video_predict.py with subprocess.run
ReqStartsRun(t) ==
    /\ reqPc[t] = "written"
    /\ reqPc' = [reqPc EXCEPT ![t] = "run"]
    /\ previewBy' = {}
    /\ UNCHANGED << promptsBy, readBy >>
    /\ ConcUnchanged

\* video_predict.py lines 165-167: the run rebuilds the indexed directory
ReqRunIndexes(t) ==
    /\ reqPc[t] = "run"
    /\ reqPc' = [reqPc EXCEPT ![t] = "indexed"]
    /\ UNCHANGED << promptsBy, previewBy, readBy >>
    /\ ConcUnchanged

\* video_predict.py lines 184-197: the run loads the prompts.json on disk
ReqRunReadsPrompts(t) ==
    /\ reqPc[t] = "indexed"
    /\ reqPc' = [reqPc EXCEPT ![t] = "loaded"]
    /\ readBy' = [readBy EXCEPT ![t] = promptsBy]
    /\ UNCHANGED << promptsBy, previewBy >>
    /\ ConcUnchanged

\* video_predict.py lines 252-278: the run writes its previews and ends
ReqRunWrites(t) ==
    /\ reqPc[t] = "loaded"
    /\ reqPc' = [reqPc EXCEPT ![t] = "ran"]
    /\ previewBy' = previewBy \cup {t}
    /\ UNCHANGED << promptsBy, readBy >>
    /\ ConcUnchanged

\* lines 900-907 and 1056-1060: PREVIEW_DIR is listed and the answer sent
ReqAnswers(t) ==
    /\ reqPc[t] = "ran"
    /\ reqPc' = [reqPc EXCEPT ![t] = "idle"]
    /\ readBy' = [readBy EXCEPT ![t] = 0]
    /\ UNCHANGED << promptsBy, previewBy >>
    /\ ConcUnchanged

InitConcurrent ==
    /\ reqPc = [t \in Clients |-> "idle"]
    /\ promptsBy = 0 /\ previewBy = {}
    /\ readBy = [t \in Clients |-> 0]
    /\ srcExists = TRUE /\ srcFiles = {} /\ dstFiles = {} /\ AUTO_INDEX = TRUE
    /\ promptsJson = <<>> /\ outDir = {} /\ maskedDir = {} /\ previewDir = {}
    /\ RunIdle
    /\ MaskIdle
    /\ FlaskIdle
    /\ NameIdle
    /\ IndexIdle
    /\ FlagIdle

ConcurrentNext ==
    \E t \in Clients :
        \/ ReqWritesPrompts(t)
        \/ ReqStartsRun(t)
        \/ ReqRunIndexes(t)
        \/ ReqRunReadsPrompts(t)
        \/ ReqRunWrites(t)
        \/ ReqAnswers(t)

SpecConcurrent == InitConcurrent /\ [][ConcurrentNext]_vars

\* C17: at any time at most one propagation run is active against a
\* dataset: under every interleaving of concurrent /save requests two
\* video_predict runs never overlap, so that none empties PREVIEW_DIR,
\* rebuilds the indexed directory or rewrites prompts.json while another
\* run is reading or writing them.
C17_AtMostOneRun ==
    /\ Cardinality({t \in Clients : reqPc[t] \in RunActive}) <= 1
    /\ \A t \in Clients : reqPc[t] = "loaded" => readBy[t] = t

====
